---- MODULE Spec2Model ----
(***************************************************************************)
(* Model of claude-progress-monitor: src/src/monitor.py (class Monitor).   *)
(*                                                                         *)
(* One Monitor object is shared by NumCalls coroutines, each executing one *)
(* spawn_with_monitoring call on a single asyncio event loop.  The event   *)
(* loop is cooperative: a coroutine runs until it reaches                  *)
(* `await asyncio.sleep(5)` (monitor.py:198) or leaves the call, so `cur`  *)
(* names the coroutine holding the loop and every other operation          *)
(* (another spawn, kill_task, check_task, list_active_tasks) runs only     *)
(* when cur = NoCall.  Synchronous code is taken to run in zero time; the  *)
(* clock `now` (whole seconds) advances only while coroutines sleep.       *)
(* Callbacks are caller code: each invocation either returns or raises.    *)
(* Callers keep the ids they supply unique among the active tasks, as the  *)
(* interface requires; generated ids come from the clock second.           *)
(***************************************************************************)
EXTENDS Integers, Sequences, FiniteSets, TLC

\* ---------------------------------------------------------------- bounds
NumCalls == 2
MaxTime == 30
MaxSamples == 3

\* ------------------------------------------------------ program constants
PollTick == 5

\* ------------------------------------------------------------ input sets
Calls == 1..NumCalls
NoCall == 0
UserIds == {"a"}
None == "None"
Timeouts == {3, 20}
UpdateIntervals == {5, 10}
Delays == {0, 20}
Descriptions == {"research"}
CallbackOutcomes == {"returns", "raises"}
TrackerIds == {"a", "b"}
Percentages == {0, 50, 120}
Timestamps == {0, 300, 600}
BarPercentages == (-2)..102
BarWidths == {0, 10, 50}

Terminal == {"completed", "failed", "timeout", "killed"}

VARIABLES
    now,              \* time.time() / datetime.utcnow(), in seconds
    update_interval,  \* Monitor.update_interval
    active_tasks,     \* Monitor.active_tasks: task id -> the call owning the SubagentTask object
    task,             \* the SubagentTask object created by each call
    pc,               \* position of each spawn_with_monitoring call
    frame,            \* locals of each call: callbacks supplied, start_time, last_update, wake-up time
    exc,              \* exception raised inside the try block of each call
    outcome,          \* how each call ended: the returned payload or the kind of exception raised
    cbLog,            \* callbacks invoked by each call, in order
    cbTime,           \* clock readings at the on_progress invocations of each call
    updates,          \* ProgressTracker.updates of Monitor.progress_tracker: task id -> samples
    cur,              \* coroutine currently running on the event loop
    lastCall          \* the kill_task / check_task / list_active_tasks call made by the last step

vars == <<now, update_interval, active_tasks, task, pc, frame, exc, outcome, cbLog, cbTime,
          updates, cur, lastCall>>

Max(a, b) == IF a >= b THEN a ELSE b
Min(a, b) == IF a <= b THEN a ELSE b

NoTask ==
    [task_id |-> "", description |-> "", timeout |-> 0, status |-> "none", progress |-> 0]

NoFrame ==
    [on_progress |-> FALSE, on_complete |-> FALSE, on_error |-> FALSE,
     start_time |-> 0, last_update |-> 0, wake |-> 0]

NoQuery == [op |-> "none"]

\* SubagentTask(...) as constructed at monitor.py:99-106.  The datetime fields
\* start_time, last_update and next_check only feed the displayed elapsed time
\* and are left out, as are tools and check_interval, which nothing reads.
SubagentTask(id, description, timeout) ==
    [task_id |-> id, description |-> description, timeout |-> timeout,
     status |-> "running", progress |-> 0]

\* task_id or f"task_{int(time.time())}"
GenTaskId(task_id, t) == IF task_id = None THEN "task_" \o ToString(t) ELSE task_id

\* min(100, int((elapsed / task.timeout) * 100 * 2))
SimulatedProgress(elapsed, timeout) == Min(100, (elapsed * 200) \div timeout)

DelKeyAll(f, k) == <<>>

\* del self.active_tasks[task_id]
DelKey(f, k) == [x \in DOMAIN f \ {k} |-> f[x]]

\* self.active_tasks[task_id] = subagent_task
SetKey(f, k, v) == [x \in DOMAIN f \cup {k} |-> IF x = k THEN v ELSE f[x]]

Init ==
    /\ now = 0
    /\ update_interval \in UpdateIntervals
    /\ active_tasks = <<>>
    /\ task = [c \in Calls |-> NoTask]
    /\ pc = [c \in Calls |-> "idle"]
    /\ frame = [c \in Calls |-> NoFrame]
    /\ exc = [c \in Calls |-> "none"]
    /\ outcome = [c \in Calls |-> "none"]
    /\ cbLog = [c \in Calls |-> <<>>]
    /\ cbTime = [c \in Calls |-> <<>>]
    /\ updates = <<>>
    /\ cur = NoCall
    /\ lastCall = NoQuery

\* spawn_with_monitoring up to the first loop iteration (lines 96-111 and the
\* locals of _execute_with_monitoring, lines 172-173).  Calls take the slots
\* 1, 2, ... in order.
Spawn(c, task_id, description, timeout, onp, onc, one) ==
    /\ cur = NoCall
    /\ pc[c] = "idle"
    /\ \A d \in Calls : d < c => pc[d] # "idle"
    /\ task_id # None => task_id \notin DOMAIN active_tasks
    /\ LET id == GenTaskId(task_id, now) IN
        /\ task' = [task EXCEPT ![c] = SubagentTask(id, description, timeout)]
        /\ active_tasks' = SetKey(active_tasks, id, c)
    /\ frame' = [frame EXCEPT ![c] =
                    [on_progress |-> onp, on_complete |-> onc, on_error |-> one,
                     start_time |-> now, last_update |-> now, wake |-> 0]]
    /\ pc' = [pc EXCEPT ![c] = "poll"]
    /\ cur' = c
    /\ lastCall' = NoQuery
    /\ UNCHANGED <<now, update_interval, exc, outcome, cbLog, cbTime, updates>>

\* elapsed = time.time() - start_time (line 178)
Elapsed(c) == now - frame[c].start_time

TimedOutWhenDue(c) ==
    /\ Elapsed(c) > task[c].timeout
    /\ now - frame[c].last_update >= update_interval

\* if elapsed > task.timeout (line 181)
TimedOut(c) == Elapsed(c) > task[c].timeout

DueStrict(c) == now - frame[c].last_update > update_interval

\* if time.time() - last_update >= self.update_interval (line 189)
Due(c) == now - frame[c].last_update >= update_interval

\* last_update after the iteration: reset to time.time() when an update was sent (line 191)
NextLastUpdate(c) == IF Due(c) THEN now ELSE frame[c].last_update

\* one iteration of the while loop of _execute_with_monitoring (lines 178-198),
\* _send_progress_update included; cb is what on_progress does if invoked
Poll(c, cb) ==
    /\ cur = c
    /\ pc[c] = "poll"
    /\ lastCall' = NoQuery
    /\ LET progress == SimulatedProgress(Elapsed(c), task[c].timeout)
           invoked == Due(c) /\ frame[c].on_progress
       IN
        IF TimedOut(c)
        THEN /\ cb = "returns"
             /\ exc' = [exc EXCEPT ![c] = "asyncio.TimeoutError"]
             /\ pc' = [pc EXCEPT ![c] = "except_timeout"]
             /\ UNCHANGED <<task, frame, cbLog, cbTime, cur>>
        ELSE /\ task' = [task EXCEPT ![c].progress = progress]
             /\ cbLog' = IF invoked
                         THEN [cbLog EXCEPT ![c] = Append(@, "on_progress")]
                         ELSE cbLog
             /\ cbTime' = IF invoked
                          THEN [cbTime EXCEPT ![c] = Append(@, now)]
                          ELSE cbTime
             /\ IF invoked /\ cb = "raises"
                THEN /\ exc' = [exc EXCEPT ![c] = "Exception"]
                     /\ pc' = [pc EXCEPT ![c] = "except_exception"]
                     /\ UNCHANGED <<frame, cur>>
                ELSE /\ cb = "raises" => invoked
                     /\ IF progress >= 100
                        THEN /\ pc' = [pc EXCEPT ![c] = "return"]
                             /\ frame' = [frame EXCEPT ![c].last_update = NextLastUpdate(c)]
                             /\ cur' = cur
                        ELSE /\ pc' = [pc EXCEPT ![c] = "sleep"]
                             /\ frame' = [frame EXCEPT ![c].last_update = NextLastUpdate(c),
                                                       ![c].wake = now + PollTick]
                             /\ cur' = NoCall
                     /\ UNCHANGED exc
    /\ UNCHANGED <<now, update_interval, active_tasks, outcome, updates>>

\* await asyncio.sleep(5) returns: not before the tick has passed, possibly
\* later (the loop was busy, or the process was suspended)
Wake(c, delay) ==
    /\ cur = NoCall
    /\ pc[c] = "sleep"
    /\ Max(now, frame[c].wake) + delay <= MaxTime
    /\ now' = Max(now, frame[c].wake) + delay
    /\ pc' = [pc EXCEPT ![c] = "poll"]
    /\ cur' = c
    /\ lastCall' = NoQuery
    /\ UNCHANGED <<update_interval, active_tasks, task, frame, exc, outcome, cbLog, cbTime, updates>>

\* lines 122-131: _execute_with_monitoring returned the result payload
Complete(c, cb) ==
    /\ cur = c
    /\ pc[c] = "return"
    /\ task' = [task EXCEPT ![c].status = "completed", ![c].progress = 100]
    /\ IF frame[c].on_complete
       THEN /\ cbLog' = [cbLog EXCEPT ![c] = Append(@, "on_complete")]
            /\ IF cb = "raises"
               THEN /\ exc' = [exc EXCEPT ![c] = "Exception"]
                    /\ pc' = [pc EXCEPT ![c] = "except_exception"]
                    /\ UNCHANGED outcome
               ELSE /\ outcome' = [outcome EXCEPT ![c] = "success"]
                    /\ pc' = [pc EXCEPT ![c] = "finally"]
                    /\ UNCHANGED exc
       ELSE /\ cb = "returns"
            /\ outcome' = [outcome EXCEPT ![c] = "success"]
            /\ pc' = [pc EXCEPT ![c] = "finally"]
            /\ UNCHANGED <<cbLog, exc>>
    /\ lastCall' = NoQuery
    /\ UNCHANGED <<now, update_interval, active_tasks, frame, cur, cbTime, updates>>

\* the body shared by both except clauses: set the status, call on_error, raise
Handle(c, cb, status, raised) ==
    /\ cur = c
    /\ task' = [task EXCEPT ![c].status = status]
    /\ IF frame[c].on_error
       THEN /\ cbLog' = [cbLog EXCEPT ![c] = Append(@, "on_error")]
            /\ outcome' = [outcome EXCEPT ![c] =
                              IF cb = "raises" THEN "Exception" ELSE raised]
       ELSE /\ cb = "returns"
            /\ outcome' = [outcome EXCEPT ![c] = raised]
            /\ UNCHANGED cbLog
    /\ pc' = [pc EXCEPT ![c] = "finally"]
    /\ lastCall' = NoQuery
    /\ UNCHANGED <<now, update_interval, active_tasks, frame, exc, cur, cbTime, updates>>

\* lines 133-141: except asyncio.TimeoutError
HandleTimeout(c, cb) ==
    /\ pc[c] = "except_timeout"
    /\ Handle(c, cb, "timeout", "TimeoutError")

\* lines 143-151: except Exception as e
HandleException(c, cb) ==
    /\ pc[c] = "except_exception"
    /\ Handle(c, cb, "failed", "SubagentError")

\* lines 153-156: finally, after which the call returns or raises `outcome`.
\* The call's locals do not outlive it: frame, exc, cbLog and cbTime are released.
Cleanup(c) ==
    /\ cur = c
    /\ pc[c] = "finally"
    /\ active_tasks' = IF task[c].task_id \in DOMAIN active_tasks
                       THEN DelKey(active_tasks, task[c].task_id)
                       ELSE active_tasks
    /\ frame' = [frame EXCEPT ![c] = NoFrame]
    /\ exc' = [exc EXCEPT ![c] = "none"]
    /\ cbLog' = [cbLog EXCEPT ![c] = <<>>]
    /\ cbTime' = [cbTime EXCEPT ![c] = <<>>]
    /\ pc' = [pc EXCEPT ![c] = "done"]
    /\ cur' = NoCall
    /\ lastCall' = NoQuery
    /\ UNCHANGED <<now, update_interval, task, outcome, updates>>

CheckSnapshotStale(t) ==
    [task_id |-> t.task_id, status |-> "running", progress |-> t.progress,
     description |-> t.description]

\* the dict built at lines 238-244 (elapsed is not modelled)
CheckSnapshot(t) ==
    [task_id |-> t.task_id, status |-> t.status, progress |-> t.progress,
     description |-> t.description]

\* the dict built at lines 271-276 (elapsed is not modelled)
ListSnapshot(t) ==
    [task_id |-> t.task_id, status |-> t.status, progress |-> t.progress]

\* status of the task registered under task_id, "absent" if none
StatusOf(task_id) ==
    IF task_id \in DOMAIN active_tasks THEN task[active_tasks[task_id]].status ELSE "absent"

\* ids a caller can know: its own and those of the calls made so far
KnownIds ==
    UserIds \cup DOMAIN active_tasks
            \cup {task[c].task_id : c \in {d \in Calls : pc[d] # "idle"}}

\* every id that can exist within the time bound
AllIds == UserIds \cup {GenTaskId(None, t) : t \in 0..MaxTime}

\* kill_task(task_id), called by another coroutine while the loop is free
KillTask(task_id) ==
    /\ cur = NoCall
    /\ task_id \in KnownIds
    /\ IF task_id \notin DOMAIN active_tasks
       THEN /\ lastCall' = [op |-> "kill_task", id |-> task_id, val |-> FALSE]
            /\ UNCHANGED task
       ELSE /\ task' = [task EXCEPT ![active_tasks[task_id]].status = "killed"]
            /\ lastCall' = [op |-> "kill_task", id |-> task_id, val |-> TRUE]
    /\ UNCHANGED <<now, update_interval, active_tasks, pc, frame, exc, outcome, cbLog, cur, cbTime, updates>>

\* check_task(task_id)
CheckTask(task_id) ==
    /\ cur = NoCall
    /\ task_id \in KnownIds
    /\ lastCall' = [op |-> "check_task", id |-> task_id,
                    val |-> IF task_id \notin DOMAIN active_tasks
                            THEN <<>>
                            ELSE <<CheckSnapshot(task[active_tasks[task_id]])>>]
    /\ UNCHANGED <<now, update_interval, active_tasks, task, pc, frame, exc, outcome, cbLog, cur, cbTime, updates>>

\* list_active_tasks()
ListActiveTasks ==
    /\ cur = NoCall
    /\ lastCall' = [op |-> "list_active_tasks",
                    val |-> {ListSnapshot(task[active_tasks[k]]) : k \in DOMAIN active_tasks}]
    /\ UNCHANGED <<now, update_interval, active_tasks, task, pc, frame, exc, outcome, cbLog, cur, cbTime, updates>>

Next ==
    \/ \E c \in Calls, id \in UserIds \cup {None}, d \in Descriptions, t \in Timeouts,
          onp \in BOOLEAN, onc \in BOOLEAN, one \in BOOLEAN :
            Spawn(c, id, d, t, onp, onc, one)
    \/ \E c \in Calls, cb \in CallbackOutcomes : Poll(c, cb)
    \/ \E c \in Calls, delay \in Delays : Wake(c, delay)
    \/ \E c \in Calls, cb \in CallbackOutcomes : Complete(c, cb)
    \/ \E c \in Calls, cb \in CallbackOutcomes : HandleTimeout(c, cb)
    \/ \E c \in Calls, cb \in CallbackOutcomes : HandleException(c, cb)
    \/ \E c \in Calls : Cleanup(c)
    \/ \E id \in AllIds : KillTask(id)
    \/ \E id \in AllIds : CheckTask(id)
    \/ ListActiveTasks

Spec == Init /\ [][Next]_vars

\* ======================================================================
\* src/src/progress.py: ProgressTracker.  Timestamps are datetimes counted
\* in seconds; a float result is kept as the exact fraction <<n, d>>, d > 0,
\* in lowest terms (float rounding and the microsecond resolution of
\* timedelta are not modelled, and timestamps stay far from datetime.max).
\* ======================================================================

\* the samples stored for a task id, none if the id has no entry
Samples(u, id) == IF id \in DOMAIN u THEN u[id] ELSE <<>>

Abs(x) == IF x < 0 THEN -x ELSE x

RECURSIVE Gcd(_, _)
Gcd(a, b) == IF b = 0 THEN a ELSE Gcd(b, a % b)

\* the quotient n / d of a true division
Frac(n, d) ==
    LET g == Gcd(Abs(n), Abs(d))
        sgn == IF d < 0 THEN -1 ELSE 1
    IN <<(sgn * n) \div g, Abs(d) \div g>>

Zero == <<0, 1>>

\* {'percentage': percentage, 'timestamp': timestamp or datetime.utcnow()}
Sample(percentage, timestamp) == [percentage |-> percentage, timestamp |-> timestamp]

AppendSampleReplace(u, id, smp) == SetKey(u, id, <<smp>>)

\* add_update, lines 48-54: create the list if missing, then append
AppendSample(u, id, smp) == SetKey(u, id, Append(Samples(u, id), smp))

get_progress_rate_window(u, id) ==
    IF id \notin DOMAIN u \/ Len(u[id]) < 2
    THEN Zero
    ELSE LET first == u[id][Len(u[id]) - 1]
             last == u[id][Len(u[id])]
             seconds == last.timestamp - first.timestamp
             progress_diff == last.percentage - first.percentage
         IN IF seconds = 0 THEN Zero ELSE Frac(progress_diff * 60, seconds)

\* get_progress_rate, lines 66-79: time_diff = seconds / 60,
\* rate = progress_diff / time_diff
get_progress_rate(u, id) ==
    IF id \notin DOMAIN u \/ Len(u[id]) < 2
    THEN Zero
    ELSE LET first == u[id][1]
             last == u[id][Len(u[id])]
             seconds == last.timestamp - first.timestamp
             progress_diff == last.percentage - first.percentage
         IN IF seconds = 0 THEN Zero ELSE Frac(progress_diff * 60, seconds)

estimate_completion_first(u, id) ==
    IF id \notin DOMAIN u
    THEN <<>>
    ELSE LET rate == get_progress_rate(u, id) IN
         IF rate[1] <= 0
         THEN <<>>
         ELSE LET last == u[id][Len(u[id])]
                  remaining == 100 - u[id][1].percentage
              IN Frac(last.timestamp * rate[1] + remaining * rate[2] * 60, rate[1])

\* estimate_completion, lines 91-104: None (<<>>) or the timestamp
\* last.timestamp + timedelta(minutes = remaining / rate), in seconds
estimate_completion(u, id) ==
    IF id \notin DOMAIN u
    THEN <<>>
    ELSE LET rate == get_progress_rate(u, id) IN
         IF rate[1] <= 0
         THEN <<>>
         ELSE LET last == u[id][Len(u[id])]
                  remaining == 100 - last.percentage
              IN Frac(last.timestamp * rate[1] + remaining * rate[2] * 60, rate[1])

\* get_summary, lines 108-123
get_summary(u, id) ==
    IF id \notin DOMAIN u
    THEN [updates |-> 0, current_progress |-> 0, rate |-> Zero,
          estimated_completion |-> <<>>]
    ELSE [updates |-> Len(u[id]), current_progress |-> u[id][Len(u[id])].percentage,
          rate |-> get_progress_rate(u, id),
          estimated_completion |-> estimate_completion(u, id)]

\* number of samples held by the store
StoreSize(u) ==
    LET RECURSIVE Sum(_)
        Sum(ids) == IF ids = {} THEN 0
                    ELSE LET id == CHOOSE x \in ids : TRUE
                         IN Len(u[id]) + Sum(ids \ {id})
    IN Sum(DOMAIN u)

\* the Monitor's own state, which the tracker never touches
monitorVars ==
    <<now, update_interval, active_tasks, task, pc, frame, exc, outcome, cbLog, cbTime, cur>>

\* add_update(task_id, percentage, timestamp); given = FALSE leaves the
\* timestamp out, which then defaults to datetime.utcnow()
AddUpdate(task_id, percentage, timestamp, given) ==
    /\ StoreSize(updates) < MaxSamples
    /\ LET ts == IF given THEN timestamp ELSE now IN
        /\ updates' = AppendSample(updates, task_id, Sample(percentage, ts))
        /\ lastCall' = [op |-> "add_update", id |-> task_id,
                        val |-> Sample(percentage, ts)]
    /\ UNCHANGED monitorVars

GetProgressRate(task_id) ==
    /\ lastCall' = [op |-> "get_progress_rate", id |-> task_id,
                    val |-> get_progress_rate(updates, task_id)]
    /\ UNCHANGED <<monitorVars, updates>>

EstimateCompletion(task_id) ==
    /\ lastCall' = [op |-> "estimate_completion", id |-> task_id,
                    val |-> estimate_completion(updates, task_id)]
    /\ UNCHANGED <<monitorVars, updates>>

GetSummary(task_id) ==
    /\ lastCall' = [op |-> "get_summary", id |-> task_id,
                    val |-> get_summary(updates, task_id)]
    /\ UNCHANGED <<monitorVars, updates>>

NextTracker ==
    \/ \E id \in TrackerIds, pct \in Percentages, ts \in Timestamps, given \in BOOLEAN :
            AddUpdate(id, pct, ts, given)
    \/ \E id \in TrackerIds : GetProgressRate(id)
    \/ \E id \in TrackerIds : EstimateCompletion(id)
    \/ \E id \in TrackerIds : GetSummary(id)

SpecTracker == Init /\ [][NextTracker]_vars

\* ======================================================================
\* src/src/progress.py: ProgressBar
\* ======================================================================

\* self.percentage = max(0, min(100, percentage))
Clamp(percentage) == Max(0, Min(100, percentage))

\* The <<percentage, width>> pairs with width <= 100 at which the double
\* product percentage / 100 * width lies just below the exact product, which
\* is a whole number there (58 / 100 * 50 = 28.999999999999996).
RoundedBelow == {<<58, 50>>, <<70, 90>>, <<29, 100>>, <<57, 100>>, <<58, 100>>}

\* filled = int(self.percentage / 100 * self.width), in double arithmetic
Filled(percentage, width) ==
    IF <<percentage, width>> \in RoundedBelow
    THEN (percentage * width) \div 100 - 1
    ELSE (percentage * width) \div 100

\* ProgressBar(percentage, width).render(): filled cells, then empty cells
render(percentage, width) ==
    LET pct == Clamp(percentage)
        filled == Filled(pct, width)
        empty == width - filled
    IN [i \in 1..filled |-> "filled"] \o [i \in 1..empty |-> "empty"]

Render(percentage, width) ==
    /\ lastCall' = [op |-> "render", percentage |-> percentage, width |-> width,
                    val |-> render(percentage, width)]
    /\ UNCHANGED <<monitorVars, updates>>

NextRender == \E pct \in BarPercentages, w \in BarWidths : Render(pct, w)

SpecRender == Init /\ [][NextRender]_vars

\* ======================================================================
\* Claims about the Monitor
\* ======================================================================

Count(log, x) == Cardinality({i \in DOMAIN log : log[i] = x})

\* the registry entry created by call c is still in place
Registered(c) ==
    /\ task[c].task_id \in DOMAIN active_tasks
    /\ active_tasks[task[c].task_id] = c

\* C1: a task's status changes only from running to completed, failed,
\* timeout or killed, and a terminal status never changes again.
C1_StatusTransitions ==
    [][\A c \in Calls :
          task'[c].status # task[c].status =>
              \/ task[c].status = "none" /\ task'[c].status = "running"
              \/ task[c].status = "running" /\ task'[c].status \in Terminal]_vars

\* C2: once kill_task has set a task to killed, its poll loop writes no
\* further progress, invokes neither on_progress nor on_complete, and does
\* not produce a success result.
C2_KilledLoopStops ==
    [][\A c \in Calls :
          task[c].status = "killed" =>
              /\ task'[c].progress = task[c].progress
              /\ cbLog'[c] # Append(cbLog[c], "on_progress")
              /\ cbLog'[c] # Append(cbLog[c], "on_complete")
              /\ pc'[c] # "return"
              /\ outcome'[c] # "success"]_vars

\* C3: kill_task returns true exactly when it changes a status from running
\* to killed; when it returns false no status and no registry entry changes.
C3_KillReturnsTransition ==
    [][lastCall'.op = "kill_task" =>
          /\ lastCall'.val <=>
                /\ StatusOf(lastCall'.id) = "running"
                /\ task'[active_tasks[lastCall'.id]].status = "killed"
          /\ ~lastCall'.val => task' = task /\ active_tasks' = active_tasks]_vars

\* C4: a call whose task reached progress 100 at a poll that passed the
\* timeout check leaves with status completed, returns the success payload,
\* and has invoked on_complete (if supplied) exactly once.
C4_CompletedAtHundred ==
    \A c \in Calls :
        pc[c] = "finally" /\ task[c].progress >= 100 =>
            /\ task[c].status = "completed"
            /\ outcome[c] = "success"
            /\ frame[c].on_complete => Count(cbLog[c], "on_complete") = 1

\* C5: a call whose poll found elapsed > timeout leaves with status timeout
\* and raises TimeoutError.
C5_TimeoutRaised ==
    \A c \in Calls :
        pc[c] = "finally" /\ exc[c] = "asyncio.TimeoutError" =>
            /\ task[c].status = "timeout"
            /\ outcome[c] = "TimeoutError"

\* C6: with on_complete and on_error both supplied, every call invokes
\* exactly one of them exactly once, and that invocation is its last callback.
C6_OneTerminalCallback ==
    \A c \in Calls :
        pc[c] = "finally" /\ frame[c].on_complete /\ frame[c].on_error =>
            /\ Count(cbLog[c], "on_complete") + Count(cbLog[c], "on_error") = 1
            /\ cbLog[c][Len(cbLog[c])] \in {"on_complete", "on_error"}

\* C7: when a call returns or raises, its task's status is terminal and its
\* task id is not a key of active_tasks; the registry entry the call created
\* is removed exactly once, by the call's own cleanup step.
C7_CleanupOwnEntry ==
    [][\A c \in Calls :
          /\ pc[c] = "finally" /\ pc'[c] = "done" =>
                /\ task'[c].status \in Terminal
                /\ task'[c].task_id \notin DOMAIN active_tasks'
                /\ Registered(c)
          /\ Registered(c) /\ ~Registered(c)' =>
                pc[c] = "finally" /\ pc'[c] = "done"]_vars

\* C8: every snapshot returned by list_active_tasks has status running.
C8_ListedAreRunning ==
    lastCall.op = "list_active_tasks" =>
        \A s \in lastCall.val : s.status = "running"

\* C9: a call that does not return the success payload raises TimeoutError
\* or SubagentError and nothing else.
C9_FailureKinds ==
    \A c \in Calls :
        pc[c] = "done" => outcome[c] \in {"success", "TimeoutError", "SubagentError"}

\* C10: check_task returns None exactly when the id is not a key of
\* active_tasks - in particular for an id all of whose calls have been
\* cleaned up - and otherwise a snapshot equal to the registered task's
\* task_id, status, progress and description; it changes no task and no
\* registry entry.
C10_CheckTask ==
    [][lastCall'.op = "check_task" =>
          LET id == lastCall'.id IN
          /\ task' = task /\ active_tasks' = active_tasks /\ pc' = pc
          /\ lastCall'.val = <<>> <=> id \notin DOMAIN active_tasks
          /\ (\A c \in Calls : task[c].task_id = id => pc[c] = "done") =>
                lastCall'.val = <<>>
          /\ id \in DOMAIN active_tasks =>
                LET t == task[active_tasks[id]]
                    s == lastCall'.val[1]
                IN /\ s.task_id = id /\ s.task_id = t.task_id
                   /\ s.status = t.status
                   /\ s.progress = t.progress
                   /\ s.description = t.description]_vars

\* C10 witness: check_task reports a killed task that has made progress.
C10_Witness ==
    /\ lastCall.op = "check_task"
    /\ lastCall.val # <<>>
    /\ lastCall.val[1].status = "killed"
    /\ lastCall.val[1].progress > 0

\* call c is between its registration and its cleanup
InFlight(c) == pc[c] \notin {"idle", "done"}

\* the step taken is a loop iteration of call c
PollStep(c) == cur = c /\ pc[c] = "poll" /\ pc'[c] # "poll"

\* C14: every poll cycle that passes the timeout check appends one sample
\* for the task to the Monitor's sample store, and the last stored
\* percentage is the task's progress.
C14_PollRecordsSample ==
    [][\A c \in Calls :
          PollStep(c) /\ ~TimedOut(c) =>
              LET before == Samples(updates, task[c].task_id)
                  after == Samples(updates', task[c].task_id)
              IN /\ Len(after) = Len(before) + 1
                 /\ after[Len(after)].percentage = task'[c].progress]_vars

\* the clock reading the cadence of call c counts from: its previous
\* on_progress invocation, or the start of its loop
PrevProgress(c) ==
    IF cbTime[c] = <<>> THEN frame[c].start_time ELSE cbTime[c][Len(cbTime[c])]

C16_TimeoutIgnoresCadence ==
    [][\A c \in Calls :
          PollStep(c) =>
              LET elapsed == now - frame[c].start_time IN
              /\ elapsed > task[c].timeout =>
                    /\ pc'[c] = "except_timeout"
                    /\ task' = task /\ cbLog' = cbLog /\ cbTime' = cbTime
              /\ elapsed <= task[c].timeout =>
                    /\ pc'[c] # "except_timeout"
                    /\ pc'[c] # "except_exception" =>
                          pc'[c] = IF SimulatedProgress(elapsed, task[c].timeout) >= 100
                                   THEN "return" ELSE "sleep"]_vars

\* C16 witness: a poll cycle raised the timeout although a progress update
\* was due in the same cycle.
C16_Witness ==
    \E c \in Calls :
        /\ pc[c] = "except_timeout"
        /\ frame[c].on_progress
        /\ Due(c)
        /\ cbLog[c] = <<>>

\* C18: calls in flight have pairwise different task ids, generated ones
\* included, and each is registered under its id.
C18_GeneratedIdsDistinct ==
    \A c, d \in Calls :
        c # d /\ InFlight(c) /\ InFlight(d) =>
            /\ task[c].task_id # task[d].task_id
            /\ Registered(c)

\* C19: a step of one call leaves the task record of every call with a
\* different id unchanged and keeps that call's registry entry in place.
C19_CallsIndependent ==
    [][\A c, d \in Calls :
          /\ c # d
          /\ pc'[c] # pc[c]
          /\ task'[c].task_id # task[d].task_id
          => /\ task'[d] = task[d]
             /\ Registered(d) => Registered(d)']_vars

\* C19 witness: one call is at its cleanup while another, with a different
\* id, is in flight, has made progress and is still registered.
C19_Witness ==
    \E c, d \in Calls :
        /\ pc[c] = "finally"
        /\ pc[d] = "sleep"
        /\ task[c].task_id # task[d].task_id
        /\ task[d].progress > 0
        /\ Registered(d)

\* C20: the simulated progress stays within 0..100, never decreases, and is
\* 100 at every poll with elapsed >= timeout / 2; a call polled with
\* timeout / 2 <= elapsed <= timeout ends completed; and a poll times out
\* only if the previous poll was before timeout / 2.
C20_SimulatedProgress ==
    [][\A c \in Calls :
          /\ task'[c].progress \in 0..100
          /\ task'[c].progress >= task[c].progress
          /\ PollStep(c) /\ ~TimedOut(c) /\ 2 * Elapsed(c) >= task[c].timeout =>
                task'[c].progress = 100
          /\ pc'[c] = "finally" /\ task'[c].progress = 100 =>
                task'[c].status = "completed"
          /\ PollStep(c) /\ TimedOut(c) =>
                2 * (frame[c].wake - PollTick - frame[c].start_time) < task[c].timeout]_vars

\* ======================================================================
\* Claims about the ProgressTracker (specification SpecTracker)
\* ======================================================================

\* C11: get_progress_rate returns 0 with fewer than two samples or with equal
\* first and last timestamps, and otherwise (last.percentage -
\* first.percentage) divided by the minutes between the first and the last
\* sample, whatever lies between them; (0, t0), (50, t0 + 5 min) gives 10.
C11_ProgressRate ==
    lastCall.op = "get_progress_rate" =>
        LET smp == Samples(updates, lastCall.id)
            n == Len(smp)
            rate == lastCall.val
        IN /\ rate[2] > 0
           /\ n < 2 => rate[1] = 0
           /\ n >= 2 =>
                LET seconds == smp[n].timestamp - smp[1].timestamp
                    diff == smp[n].percentage - smp[1].percentage
                IN /\ seconds = 0 => rate[1] = 0
                   \* rate = diff / (seconds / 60)
                   /\ seconds # 0 => rate[1] * seconds = rate[2] * diff * 60
           /\ (n >= 2 /\ smp[1] = Sample(0, 0) /\ smp[n] = Sample(50, 300)) => rate = <<10, 1>>

\* C11 witness: the rate of (0, t0), x, (50, t0 + 5 min) was computed.
C11_Witness ==
    /\ lastCall.op = "get_progress_rate"
    /\ Len(Samples(updates, lastCall.id)) = 3
    /\ updates[lastCall.id][1] = Sample(0, 0)
    /\ updates[lastCall.id][2].percentage = 120
    /\ updates[lastCall.id][3] = Sample(50, 300)
    /\ lastCall.val = <<10, 1>>

\* C12: estimate_completion returns none exactly when the task has no
\* samples or its rate is <= 0, and otherwise last.timestamp +
\* (100 - last.percentage) / rate minutes; (0, t0), (50, t0 + 5 min) gives
\* t0 + 10 min.
C12_EstimateCompletion ==
    lastCall.op = "estimate_completion" =>
        LET smp == Samples(updates, lastCall.id)
            n == Len(smp)
            seconds == smp[n].timestamp - smp[1].timestamp
            diff == smp[n].percentage - smp[1].percentage
            \* rate > 0: two samples or more, time and progress differ in the same direction
            positive == n >= 2 /\ seconds * diff > 0
            est == lastCall.val
        IN /\ est = <<>> <=> ~positive
           /\ positive =>
                /\ est[2] > 0
                \* est = last.timestamp + 60 * (100 - last.percentage) / (diff * 60 / seconds)
                /\ est[1] * diff =
                      est[2] * (smp[n].timestamp * diff + (100 - smp[n].percentage) * seconds)
           /\ (n >= 2 /\ smp[1] = Sample(0, 0) /\ smp[n] = Sample(50, 300)) => est = <<600, 1>>

\* C12 witness: the completion of (0, t0), (50, t0 + 5 min) was estimated
\* as t0 + 10 min.
C12_Witness ==
    /\ lastCall.op = "estimate_completion"
    /\ Samples(updates, lastCall.id) = <<Sample(0, 0), Sample(50, 300)>>
    /\ lastCall.val = <<600, 1>>

\* s is an initial part of t
IsPrefix(s, t) == Len(s) <= Len(t) /\ \A i \in 1..Len(s) : t[i] = s[i]

\* C17: add_update(t, p, ts) extends t's sequence by that one sample at its
\* end and leaves every stored sample and every other task's sequence as it
\* was; the three queries change no stored sample; nothing is ever removed
\* or reordered.
C17_AppendOnly ==
    [][/\ \A id \in TrackerIds : IsPrefix(Samples(updates, id), Samples(updates', id))
       /\ lastCall'.op = "add_update" =>
            /\ Samples(updates', lastCall'.id) =
                  Append(Samples(updates, lastCall'.id), lastCall'.val)
            /\ \A id \in TrackerIds \ {lastCall'.id} :
                  Samples(updates', id) = Samples(updates, id)
       /\ lastCall'.op \in {"get_progress_rate", "estimate_completion", "get_summary"} =>
            updates' = updates]_vars

\* C17 witness: a sample was appended to a task that had one already, while
\* another task holds a sample too.
C17_Witness ==
    /\ lastCall.op = "add_update"
    /\ Len(Samples(updates, lastCall.id)) = 2
    /\ \E id \in TrackerIds \ {lastCall.id} : Len(Samples(updates, id)) = 1

\* C21: whenever estimate_completion returns a timestamp (not none) for a
\* task, whatever integer percentages and timestamps add_update stored, that
\* timestamp is not earlier than the timestamp of the task's last sample.
C21_EstimateNotBeforeLast ==
    (lastCall.op = "estimate_completion" /\ lastCall.val # <<>>) =>
        LET smp == Samples(updates, lastCall.id)
            est == lastCall.val
        IN \* est = est[1] / est[2] seconds, est[2] > 0
           est[1] >= est[2] * smp[Len(smp)].timestamp

\* ======================================================================
\* Claims about the ProgressBar (specification SpecRender)
\* ======================================================================

\* C13: for every integer percentage and width >= 0 the bar has exactly
\* width cells, filled ones first, and the number of filled cells is
\* floor(p / 100 * width) for p the percentage clamped to 0..100.
C13_RenderedBar ==
    lastCall.op = "render" =>
        LET bar == lastCall.val
            p == Max(0, Min(100, lastCall.percentage))
            filled == (p * lastCall.width) \div 100
        IN /\ Len(bar) = lastCall.width
           /\ \A i \in 1..Len(bar) : bar[i] = IF i <= filled THEN "filled" ELSE "empty"
====
